---- MODULE Spec2Model ----
(***************************************************************************)
(* A model of log_analyzer (src/log_analyzer/log_analyzer.py): the config  *)
(* parser, the selection of the newest unprocessed log file, the line      *)
(* tokenizer of log_parser, the fold and the table of write_report, and    *)
(* the order of the steps of main.                                         *)
(*                                                                         *)
(* Text is modelled character by character: a Python str is a sequence of  *)
(* one-character strings.  A Python float is modelled as a binary floating *)
(* point number with Prec significant bits and round-half-to-even, on      *)
(* non-negative integer values.                                            *)
(***************************************************************************)
EXTENDS Integers, Sequences, FiniteSets, TLC

VARIABLES
    pc,              \* the statement main / write_report is at
    run,             \* how many runs of main were started
    log_dir,         \* the names Path(log_dir).iterdir() yields, in its order
    registry,        \* the lines of the registry file, stripped
    user_config,     \* main: user_config
    last_log_file,   \* main: last_log_file (None or a LogFile)
    log_lines,       \* the lines of the open log file not yet read
    report_size,     \* write_report: report_size
    total_counters,  \* write_report: total_counters
    url_counters,    \* write_report: url_counters, in insertion order
    url_req_times,   \* write_report: url_req_times, in insertion order
    table_data,      \* write_report: table_data
    reports,         \* the report files on disk: [name, table]
    written,         \* whether this run's report file has been written
    error,           \* the exception that ended the run, or "none"
    input,           \* the argument of the function under check
    output           \* its result, or Pending

vars == <<pc, run, log_dir, registry, user_config, last_log_file, log_lines,
          report_size, total_counters, url_counters, url_req_times,
          table_data, reports, written, error, input, output>>

mainVars == <<pc, run, log_dir, registry, user_config, last_log_file,
              log_lines, report_size, total_counters, url_counters,
              url_req_times, table_data, reports, written, error>>

-----------------------------------------------------------------------------
(* Bounds of the model.                                                    *)

MaxLines == 3       \* lines in a log file
MaxParts == 4       \* parts of a line handed to the tokenizer alone
MaxValues == 4      \* length of a list handed to mediana alone
MaxCfgLines == 2    \* lines of a config file handed to parse_config alone
MaxRuns == 3        \* runs of main in a behaviour
Prec == 3           \* significant bits of the model's floating point

NumFields == 13     \* LogEntry has 13 fields: log_values[0] .. log_values[12]

-----------------------------------------------------------------------------
(* Python str and list operations.                                         *)

Quote == "\""
NL == "\n"
\* Python's None, and a value that is not None
None == [none |-> TRUE]
Some(v) == [none |-> FALSE, value |-> v]

\* the result of a function under check
Pending == [done |-> FALSE]
Done(v) == [done |-> TRUE, value |-> v]

Whitespace == {" ", NL}

DigitChars == {"0", "1", "2", "3", "4", "5", "6", "7", "8", "9"}

DigitVal(c) ==
    CASE c = "0" -> 0 [] c = "1" -> 1 [] c = "2" -> 2 [] c = "3" -> 3
      [] c = "4" -> 4 [] c = "5" -> 5 [] c = "6" -> 6 [] c = "7" -> 7
      [] c = "8" -> 8 [] c = "9" -> 9

\* s.find(c): the 0-based index of the first c in s, or -1
RECURSIVE FindFrom(_, _, _)
FindFrom(s, c, i) ==
    IF i > Len(s) THEN -1
    ELSE IF s[i] = c THEN i - 1
    ELSE FindFrom(s, c, i + 1)

Find(s, c) == FindFrom(s, c, 1)

\* s.count(c)
Count(s, c) == Cardinality({i \in 1..Len(s) : s[i] = c})

\* s.split(c) for a one-character separator: empty pieces are kept
RECURSIVE SplitLoop(_, _, _, _)
SplitLoop(s, c, piece, pieces) ==
    IF s = <<>> THEN Append(pieces, piece)
    ELSE IF Head(s) = c THEN SplitLoop(Tail(s), c, <<>>, Append(pieces, piece))
    ELSE SplitLoop(Tail(s), c, Append(piece, Head(s)), pieces)

Split(s, c) == SplitLoop(s, c, <<>>, <<>>)

\* s.strip()
RECURSIVE Strip(_)
Strip(s) ==
    IF s = <<>> THEN s
    ELSE IF s[1] \in Whitespace THEN Strip(Tail(s))
    ELSE IF s[Len(s)] \in Whitespace THEN Strip(SubSeq(s, 1, Len(s) - 1))
    ELSE s

\* " ".join(ss)
RECURSIVE Join(_)
Join(ss) ==
    IF ss = <<>> THEN <<>>
    ELSE IF Len(ss) = 1 THEN ss[1]
    ELSE ss[1] \o <<" ">> \o Join(Tail(ss))

\* xs[:n]
FirstN(xs, n) == SubSeq(xs, 1, IF Len(xs) < n THEN Len(xs) ELSE n)

NonEmpty(p) == p # <<>>

Range(f) == {f[i] : i \in DOMAIN f}

RECURSIVE SeqsUpTo(_, _)
SeqsUpTo(S, n) ==
    IF n = 0 THEN {<<>>}
    ELSE SeqsUpTo(S, n - 1)
           \cup {Append(s, x) : s \in {t \in SeqsUpTo(S, n - 1) : Len(t) = n - 1},
                                x \in S}

-----------------------------------------------------------------------------
(* log_parser: the tokenizer (lines 155-175) and the LogEntry (177-191).   *)

\* line 155: parts = [p for p in log_line.split(" ") if p != ""]
Parts(log_line) == SelectSeq(Split(log_line, " "), NonEmpty)

\* lines 161-175: the body of `for part in parts`, on the pair
\* (log_values, multiword_value)
TokenizePart(st, part) ==
    IF /\ (Find(part, Quote) < 0 \/ Count(part, Quote) = 2)
       /\ Find(part, "[") # 0
       /\ Find(part, "]") # Len(part) - 1
    THEN IF Len(st.multiword_value) > 0
         THEN [st EXCEPT !.multiword_value = Append(@, part)]
         ELSE [st EXCEPT !.log_values = Append(@, Strip(part))]
    ELSE IF Find(part, Quote) = 0 \/ Find(part, "[") = 0
    THEN [st EXCEPT !.multiword_value = Append(@, part)]
    ELSE IF Find(part, Quote) > 0 \/ Find(part, "]") > 0
    THEN [log_values |-> Append(st.log_values,
                                Join(Append(st.multiword_value, part))),
          multiword_value |-> <<>>]
    ELSE st

RECURSIVE TokenizeParts(_, _)
TokenizeParts(st, parts) ==
    IF parts = <<>> THEN st
    ELSE TokenizeParts(TokenizePart(st, Head(parts)), Tail(parts))

\* lines 155-175: log_values of one line
Tokenizer(log_line) ==
    TokenizeParts([log_values |-> <<>>, multiword_value |-> <<>>],
                  Parts(log_line)).log_values

\* lines 177-191: log_values[12] raises IndexError on a shorter list;
\* values after the 13th are not read
LogEntry(log_values) ==
    IF Len(log_values) < NumFields
    THEN [error |-> "IndexError"]
    ELSE [error |-> "none",
          remote_addr |-> log_values[1],
          remote_user |-> log_values[2],
          http_x_real_ip |-> log_values[3],
          time_local |-> log_values[4],
          request |-> log_values[5],
          status |-> log_values[6],
          body_bytes_sent |-> log_values[7],
          http_referer |-> log_values[8],
          http_user_agent |-> log_values[9],
          http_x_forwarded_for |-> log_values[10],
          http_X_REQUEST_ID |-> log_values[11],
          http_X_RB_USER |-> log_values[12],
          request_time |-> log_values[13]]

-----------------------------------------------------------------------------
(* Python float: Prec significant bits, round half to even.  The model's   *)
(* floats are non-negative integers, which is what the sums of write_report *)
(* range over when the request times are whole numbers.                    *)

RECURSIVE Pow2(_)
Pow2(n) == IF n = 0 THEN 1 ELSE 2 * Pow2(n - 1)

\* the least e such that x / 2^e has at most Prec bits
RECURSIVE ExponentFrom(_, _)
ExponentFrom(x, e) ==
    IF x \div Pow2(e) < Pow2(Prec) THEN e ELSE ExponentFrom(x, e + 1)

\* the float nearest to the real number x
RoundFloat(x) ==
    LET e == ExponentFrom(x, 0)
        q == x \div Pow2(e)
        r == x % Pow2(e)
    IN  IF e = 0 THEN x
        ELSE LET half == Pow2(e - 1)
                 up == r > half \/ (r = half /\ q % 2 = 1)
             IN  (IF up THEN q + 1 ELSE q) * Pow2(e)

\* x + y on floats (lines 244, 251)
FloatAdd(x, y) == RoundFloat(x + y)

RECURSIVE DecimalValue(_)
DecimalValue(s) ==
    IF s = <<>> THEN 0
    ELSE 10 * DecimalValue(SubSeq(s, 1, Len(s) - 1)) + DigitVal(s[Len(s)])

\* float(s) raises ValueError unless s, stripped, is a number; the model's
\* numbers are the non-empty strings of decimal digits
FloatOk(s) ==
    /\ Strip(s) # <<>>
    /\ \A i \in 1..Len(Strip(s)) : Strip(s)[i] \in DigitChars

Float(s) == RoundFloat(DecimalValue(Strip(s)))

\* round(n / d, 0) on the real quotient, half to even
RoundDiv(n, d) ==
    LET q == n \div d
        r == n % d
    IN  IF 2 * r > d \/ (2 * r = d /\ q % 2 = 1) THEN q + 1 ELSE q

-----------------------------------------------------------------------------
(* mediana (lines 194-202).                                                *)

RECURSIVE Insert(_, _)
Insert(sorted, v) ==
    IF sorted = <<>> THEN <<v>>
    ELSE IF v < Head(sorted) THEN <<v>> \o sorted
    ELSE <<Head(sorted)>> \o Insert(Tail(sorted), v)

\* sorted(values)
RECURSIVE Sorted(_)
Sorted(values) ==
    IF values = <<>> THEN <<>>
    ELSE Insert(Sorted(SubSeq(values, 1, Len(values) - 1)), values[Len(values)])

\* the lower middle index, which differs on lists of even length
MedianIndexLow(n) == (n - 1) \div 2

\* line 202: int(len(s_values) / 2), a 0-based index
MedianIndex(n) == n \div 2

Mediana(values) ==
    IF values = <<>> THEN 0
    ELSE Sorted(values)[MedianIndex(Len(values)) + 1]

-----------------------------------------------------------------------------
(* write_report: the fold (lines 228-251) and the table (lines 255-273).   *)

\* the position of url in an insertion-ordered dict, or 0
UrlIndex(d, url) ==
    IF \E i \in 1..Len(d) : d[i].url = url
    THEN CHOOSE i \in 1..Len(d) : d[i].url = url
    ELSE 0

\* lines 228-230
EmptyAcc ==
    [total_counters |-> [count |-> 0, time_sum |-> 0],
     url_counters |-> <<>>,
     url_req_times |-> <<>>,
     error |-> "none"]

\* lines 243-251 with the total's count left out
AccumulateNoTotalCount(acc, i, t) ==
    [acc EXCEPT
        !.url_counters[i].count = @ + 1,
        !.url_counters[i].time_sum = FloatAdd(@, t),
        !.url_counters[i].time_max = IF @ < t THEN t ELSE @,
        !.url_req_times[i].times = Append(@, t),
        !.total_counters.time_sum = FloatAdd(@, t)]

\* lines 243-251: acc after the record of time t is added to entry i
Accumulate(acc, i, t) ==
    [acc EXCEPT
        !.url_counters[i].count = @ + 1,
        !.url_counters[i].time_sum = FloatAdd(@, t),
        !.url_counters[i].time_max = IF @ < t THEN t ELSE @,
        !.url_req_times[i].times = Append(@, t),
        !.total_counters.count = @ + 1,
        !.total_counters.time_sum = FloatAdd(@, t)]

\* lines 235-251: the body of `for log_line in log_parser`
FoldRecord(acc, log_line) ==
    IF Len(log_line.request) = 3 THEN acc
    ELSE
    LET pieces == FirstN(Split(log_line.request, " "), 2) IN
    \* line 238: `_, url = ...` raises ValueError unless there are 2 pieces
    IF Len(pieces) # 2 THEN [acc EXCEPT !.error = "ValueError"]
    ELSE
    LET url == pieces[2]
        fresh == UrlIndex(acc.url_counters, url) = 0
        \* lines 239-241
        created ==
            IF fresh
            THEN [acc EXCEPT
                    !.url_counters =
                        Append(@, [url |-> url, count |-> 0,
                                   time_sum |-> 0, time_max |-> 0]),
                    !.url_req_times = Append(@, [url |-> url, times |-> <<>>])]
            ELSE acc
        i == UrlIndex(created.url_counters, url)
    IN  \* line 244: float() raises after line 243 has counted the record
        IF ~FloatOk(log_line.request_time)
        THEN [created EXCEPT !.url_counters[i].count = @ + 1,
                             !.error = "ValueError"]
        ELSE Accumulate(created, i, Float(log_line.request_time))

\* lines 258-273: one row.  count_perc and time_perc are in thousandths of a
\* percent and time_avg in thousandths, rounded from the real quotient;
\* round(time_sum, 3) is time_sum itself on a whole number
ReportRow(total, counters, times) ==
    [url |-> counters.url,
     count |-> counters.count,
     count_perc |-> RoundDiv(counters.count * 100000, total.count),
     time_avg |-> RoundDiv(counters.time_sum * 1000, counters.count),
     time_max |-> counters.time_max,
     time_med |-> Mediana(times),
     time_perc |-> RoundDiv(counters.time_sum * 100000, total.time_sum),
     time_sum |-> counters.time_sum]

\* lines 255-273: a division by zero raises ZeroDivisionError at the first
\* row; no row is built from an empty url_counters
BuildTable(total, counters, req_times) ==
    IF counters = <<>> THEN [error |-> "none", table_data |-> <<>>]
    ELSE IF total.count = 0 \/ total.time_sum = 0
              \/ \E i \in 1..Len(counters) : counters[i].count = 0
    THEN [error |-> "ZeroDivisionError", table_data |-> <<>>]
    ELSE [error |-> "none",
          table_data |->
              [i \in 1..Len(counters) |->
                  ReportRow(total, counters[i], req_times[i].times)]]

-----------------------------------------------------------------------------
(* parse_config (lines 52-85) and the default config (lines 23-28).        *)

KEY_REPORT_SIZE == <<"R", "E", "P", "O", "R", "T", "_", "S", "I", "Z", "E">>
KEY_REPORT_DIR == <<"R", "E", "P", "O", "R", "T", "_", "D", "I", "R">>
KEY_LOG_DIR == <<"L", "O", "G", "_", "D", "I", "R">>
KEY_REGISTRY_FILE == <<"R", "E", "G", "I", "S", "T", "R", "Y", "_", "F", "I", "L", "E">>

\* lines 23-28, in the order of the dict
DefaultKeys == <<KEY_REPORT_SIZE, KEY_REPORT_DIR, KEY_LOG_DIR, KEY_REGISTRY_FILE>>

config ==
    [k \in Range(DefaultKeys) |->
        CASE k = KEY_REPORT_SIZE -> <<"1", "0", "0", "0">>
          [] k = KEY_REPORT_DIR -> <<".", "/", "r", "e", "p", "o", "r", "t", "s">>
          [] k = KEY_LOG_DIR -> <<".", "/", "l", "o", "g">>
          [] k = KEY_REGISTRY_FILE -> <<".", "p", "r", "o", "c", "e", "s", "s", "e", "d", ".", "t", "x", "t">>]

\* d[k] = v on a dict
DictSet(d, k, v) == [x \in DOMAIN d \cup {k} |-> IF x = k THEN v ELSE d[x]]

\* d.get(k) is falsy: k is missing or maps to the empty string
Falsy(d, k) == k \notin DOMAIN d \/ d[k] = <<>>

EmptyDict == [x \in {} |-> <<>>]

\* line 74: user_config[param_value[0].strip()] = param_value[1].strip()
SetParam(user, line) ==
    DictSet(user, Strip(Split(line, "=")[1]), Strip(Split(line, "=")[2]))

\* lines 67-74: the loop over the lines; None at the first line without "="
RECURSIVE ReadParams(_, _)
ReadParams(user, lines) ==
    IF lines = <<>> THEN Some(user)
    ELSE IF Len(Split(Head(lines), "=")) < 2 THEN None
    ELSE ReadParams(SetParam(user, Head(lines)), Tail(lines))

\* lines 76-78: the defaults fill the keys that are missing or empty
RECURSIVE FillDefaults(_, _, _)
FillDefaults(user, keys, default) ==
    IF keys = <<>> THEN user
    ELSE FillDefaults(IF Falsy(user, Head(keys))
                      THEN DictSet(user, Head(keys), default[Head(keys)])
                      ELSE user,
                      Tail(keys), default)

\* lines 60-85: file is None (open raises FileNotFoundError) or the lines
\* readlines() returns; the result is None or the dict
ParseConfig(file, default) ==
    IF file = None THEN None
    ELSE IF ReadParams(EmptyDict, file.value) = None THEN None
    ELSE Some(FillDefaults(ReadParams(EmptyDict, file.value).value,
                           DefaultKeys, default))

-----------------------------------------------------------------------------
(* get_last_log_file (lines 88-142) and mark_as_processed (lines 294-297). *)

Stem == <<"n", "g", "i", "n", "x", "-", "a", "c", "c", "e", "s", "s", "-", "u", "i", ".", "l", "o", "g", "-">>

\* line 100: re.compile("^nginx-access-ui.log-[\d]{8}(.gz)*$").match(name);
\* the dots of the pattern match any character but a newline
PatternMatch(name) ==
    /\ Len(name) >= Len(Stem) + 8
    /\ \A i \in 1..Len(Stem) :
          IF Stem[i] = "." THEN name[i] # NL ELSE name[i] = Stem[i]
    /\ \A i \in (Len(Stem) + 1)..(Len(Stem) + 8) : name[i] \in DigitChars
    /\ (Len(name) - Len(Stem) - 8) % 3 = 0
    /\ \A k \in 0..((Len(name) - Len(Stem) - 8) \div 3 - 1) :
          LET at == Len(Stem) + 8 + 3 * k IN
          name[at + 1] # NL /\ name[at + 2] = "g" /\ name[at + 3] = "z"

\* s.replace(".gz", "")
RECURSIVE RemoveGz(_)
RemoveGz(s) ==
    IF Len(s) < 3 THEN s
    ELSE IF SubSeq(s, 1, 3) = <<".", "g", "z">> THEN RemoveGz(SubSeq(s, 4, Len(s)))
    ELSE <<Head(s)>> \o RemoveGz(Tail(s))

\* s[-8:]
Last8(s) == SubSeq(s, IF Len(s) > 8 THEN Len(s) - 7 ELSE 1, Len(s))

\* line 119: re.compile("\d{8}").match(log_date)
DatePatternMatch(log_date) ==
    Len(log_date) >= 8 /\ \A i \in 1..8 : log_date[i] \in DigitChars

Year(d) == DecimalValue(SubSeq(d, 1, 4))
Month(d) == DecimalValue(SubSeq(d, 5, 6))
Day(d) == DecimalValue(SubSeq(d, 7, 8))

DaysInMonth(y, m) ==
    IF m \in {4, 6, 9, 11} THEN 30
    ELSE IF m # 2 THEN 31
    ELSE IF (y % 4 = 0 /\ y % 100 # 0) \/ y % 400 = 0 THEN 29
    ELSE 28

\* line 120: datetime.strptime(log_date, "%Y%m%d") raises ValueError on a
\* string that is no calendar date
StrptimeOk(d) ==
    /\ Year(d) >= 1
    /\ Month(d) \in 1..12
    /\ Day(d) \in 1..DaysInMonth(Year(d), Month(d))

\* a datetime, as the number yyyymmdd: the order of the dates
Strptime(d) == DecimalValue(SubSeq(d, 1, 8))

\* line 109: datetime.min is 0001-01-01
DatetimeMin == 10101

\* os.path.join(a, b) and os.path.basename(p)
PathJoin(a, b) ==
    IF b # <<>> /\ b[1] = "/" THEN b
    ELSE IF a = <<>> \/ a[Len(a)] = "/" THEN a \o b
    ELSE a \o <<"/">> \o b

RECURSIVE Basename(_)
Basename(p) == IF Find(p, "/") < 0 THEN p ELSE Basename(SubSeq(p, Find(p, "/") + 2, Len(p)))

\* lines 95-98: the stripped lines of the registry file (no file: no lines)
ProcessedLogs(registry_text) ==
    [i \in 1..Len(Split(registry_text, NL)) |-> Strip(Split(registry_text, NL)[i])]

InList(x, xs) == \E i \in 1..Len(xs) : xs[i] = x

\* lines 113-129: the body of `for log_file in log_files`
SelectStep(st, log_file, processed_logs) ==
    IF st.state # "loop" \/ InList(log_file, processed_logs) THEN st
    ELSE IF ~DatePatternMatch(Last8(RemoveGz(log_file)))
    THEN [st EXCEPT !.state = "return None"]
    ELSE IF ~StrptimeOk(Last8(RemoveGz(log_file)))
    THEN [st EXCEPT !.state = "ValueError"]
    ELSE IF Strptime(Last8(RemoveGz(log_file))) > st.max_date
    THEN [st EXCEPT !.max_date = Strptime(Last8(RemoveGz(log_file))),
                    !.last_log_file = log_file]
    ELSE st

RECURSIVE SelectLoop(_, _, _)
SelectLoop(st, log_files, processed_logs) ==
    IF log_files = <<>> THEN st
    ELSE SelectLoop(SelectStep(st, Head(log_files), processed_logs),
                    Tail(log_files), processed_logs)

\* lines 95-142: names is what iterdir() yields (files only), registry_text
\* the text of the registry file.  The result is [error, value]: value is
\* None or a LogFile
GetLastLogFile(dir, names, registry_text) ==
    LET st == SelectLoop([state |-> "loop", max_date |-> DatetimeMin,
                          last_log_file |-> None],
                         SelectSeq(names, PatternMatch),
                         ProcessedLogs(registry_text))
    IN  IF st.state = "ValueError" THEN [error |-> "ValueError", value |-> None]
        ELSE IF st.state = "return None" \/ st.last_log_file = None
        THEN [error |-> "none", value |-> None]
        ELSE [error |-> "none",
              value |-> [file |-> PathJoin(dir, st.last_log_file),
                         date |-> st.max_date]]

\* lines 294-297: "\n" and the basename, appended
MarkAsProcessed(log_file, registry_text) ==
    registry_text \o <<NL>> \o Basename(log_file)

-----------------------------------------------------------------------------
(* The inputs: log lines, log files, config files and directory listings.  *)

\* a line in the ui_short format of lines 1-4 (two spaces follow
\* $remote_addr), of the given fields
LineOf(fields) == fields[1] \o <<" ", " ">> \o Join(Tail(fields)) \o <<NL>>

Fields(request, request_time) ==
    << <<"1">>, <<"-">>, <<"-">>, <<"[", "d", " ", "z", "]">>, request, <<"2">>, <<"5">>,
       <<Quote, "-", Quote>>, <<Quote, "M", " ", "z", Quote>>, <<Quote, "-", Quote>>, <<Quote, "i", Quote>>, <<Quote, "-", Quote>>, request_time >>

RequestA == <<Quote, "G", " ", "a", " ", "H", Quote>>
RequestB == <<Quote, "G", " ", "b", " ", "H", Quote>>
RequestDash == <<Quote, "-", Quote>>
RequestOneWord == <<Quote, "G", "E", Quote>>

TimeTexts == {<<"0">>, <<"2">>, <<"7">>}

GoodLines ==
    {LineOf(Fields(RequestA, t)) : t \in TimeTexts}
      \cup {LineOf(Fields(RequestB, t)) : t \in TimeTexts \ {<<"0">>}}

\* 12 tokens: the request time is missing
ShortLine == LineOf(SubSeq(Fields(RequestA, <<"2">>), 1, NumFields - 1))

\* 14 tokens: a token follows the request time
LongLine == LineOf(Append(Fields(RequestA, <<"2">>), <<"x">>))

LineSet ==
    GoodLines
      \cup {LineOf(Fields(RequestDash, <<"2">>)),
            LineOf(Fields(RequestOneWord, <<"2">>)),
            LineOf(Fields(RequestA, <<"-">>)),
            ShortLine, LongLine}

\* the log files a run of main may find behind the selected name
LogSamples ==
    { <<>>,
      <<LineOf(Fields(RequestA, <<"2">>)), LineOf(Fields(RequestB, <<"7">>))>>,
      <<LineOf(Fields(RequestA, <<"0">>))>>,
      <<ShortLine>> }

\* readlines() of the config file; None: there is no such file
ConfigSamples ==
    { None,
      Some(<<>>),
      Some(<< <<"R", "E", "P", "O", "R", "T", "_", "S", "I", "Z", "E", "=", "1", "\n">> >>),
      Some(<< <<"L", "O", "G", "_", "D", "I", "R", "=", ".", "/", "l", "\n">>,
              <<"j", "u", "n", "k", "\n">> >>) }

LogA == Stem \o <<"2", "0", "2", "3", "0", "3", "0", "1">>
LogB == Stem \o <<"2", "0", "2", "3", "0", "3", "0", "2">> \o <<".", "g", "z">>
LogX == Stem \o <<"2", "0", "2", "3", "0", "3", "0", "3">> \o <<"x", "g", "z">>
Other == <<"n", "o", "t", "e", "s">>

NameSet == {LogA, LogB, LogX, Other}

Listings == {l \in SeqsUpTo(NameSet, Cardinality(NameSet)) :
                \A i, j \in 1..Len(l) : i # j => l[i] # l[j]}

-----------------------------------------------------------------------------
(* main (lines 300-327) and the statements of write_report (219-291).      *)

\* the order of the statements with the registry written first
AfterMarkFirst(step) ==
    CASE step = "config" -> "select"
      [] step = "select" -> "mark"
      [] step = "mark" -> "parse"
      [] step = "parse" -> "template"
      [] step = "template" -> "write"
      [] step = "write" -> "copy"
      [] step = "copy" -> "done"

\* the statement that follows a completed one: parse_config, then
\* get_last_log_file, write_report (fold and table, template, report file,
\* resources), then mark_as_processed
After(step) ==
    CASE step = "config" -> "select"
      [] step = "select" -> "parse"
      [] step = "parse" -> "template"
      [] step = "template" -> "write"
      [] step = "write" -> "copy"
      [] step = "copy" -> "mark"
      [] step = "mark" -> "done"

DigitChar(v) == CHOOSE c \in DigitChars : DigitVal(c) = v

\* n in decimal, zero-padded to width digits
RECURSIVE Decimal(_, _)
Decimal(n, width) ==
    IF width = 0 THEN <<>>
    ELSE Decimal(n \div 10, width - 1) \o <<DigitChar(n % 10)>>

\* line 275: f'report-{log_date.strftime("%Y.%m.%d")}.html'
ReportFileName(log_date) ==
    <<"r", "e", "p", "o", "r", "t", "-">> \o Decimal(log_date \div 10000, 4) \o <<".">>
        \o Decimal((log_date \div 100) % 100, 2) \o <<".">>
        \o Decimal(log_date % 100, 2) \o <<".", "h", "t", "m", "l">>

Acc == [total_counters |-> total_counters, url_counters |-> url_counters,
        url_req_times |-> url_req_times, error |-> "none"]

\* one iteration of line 234: log_parser yields the next entry (or raises)
\* and the loop body folds it
ParseAndFold(acc, log_line) ==
    LET entry == LogEntry(Tokenizer(log_line)) IN
    IF entry.error # "none"
    THEN [acc EXCEPT !.error = entry.error]
    ELSE FoldRecord(acc, entry)

localsReset ==
    /\ user_config' = None /\ last_log_file' = None /\ log_lines' = <<>>
    /\ report_size' = 0
    /\ total_counters' = EmptyAcc.total_counters
    /\ url_counters' = <<>> /\ url_req_times' = <<>> /\ table_data' = <<>>
    /\ written' = FALSE /\ error' = "none"

\* lines 301-306
ParseConfigStep ==
    /\ pc = "config"
    /\ \E file \in ConfigSamples :
         \* line 303: `not user_config` holds of None and of an empty dict
         IF ParseConfig(file, config) = None
              \/ DOMAIN ParseConfig(file, config).value = {}
         THEN /\ pc' = "exit" /\ error' = "SystemExit"
              /\ user_config' = ParseConfig(file, config)
         ELSE /\ user_config' = ParseConfig(file, config)
              /\ pc' = After("config")
              /\ UNCHANGED error
    /\ UNCHANGED <<run, log_dir, registry, last_log_file, log_lines,
                   report_size, total_counters, url_counters, url_req_times,
                   table_data, reports, written, input, output>>

\* lines 308-318 and 228-230: the file is selected and write_report starts
SelectFileStep ==
    /\ pc = "select"
    /\ LET r == GetLastLogFile(user_config.value[KEY_LOG_DIR], log_dir, registry) IN
       IF r.error # "none"
       THEN /\ pc' = "crashed" /\ error' = r.error
            /\ UNCHANGED <<last_log_file, log_lines, report_size>>
       ELSE IF r.value = None
       THEN /\ pc' = "exit"
            /\ UNCHANGED <<error, last_log_file, log_lines, report_size>>
       ELSE /\ pc' = After("select")
            /\ last_log_file' = r.value
            /\ log_lines' \in LogSamples
            /\ report_size' = user_config.value[KEY_REPORT_SIZE]
            /\ UNCHANGED error
    /\ UNCHANGED <<run, log_dir, registry, user_config, total_counters,
                   url_counters, url_req_times, table_data, reports, written,
                   input, output>>

\* lines 234-251 and 154-191: one line is read, parsed and folded
ParseLineStep ==
    /\ pc = "parse" /\ log_lines # <<>>
    /\ LET new == ParseAndFold(Acc, Head(log_lines)) IN
         /\ total_counters' = new.total_counters
         /\ url_counters' = new.url_counters
         /\ url_req_times' = new.url_req_times
         /\ error' = new.error
         /\ pc' = IF new.error = "none" THEN "parse" ELSE "crashed"
    /\ log_lines' = Tail(log_lines)
    /\ UNCHANGED <<run, log_dir, registry, user_config, last_log_file,
                   report_size, table_data, reports, written, input, output>>

\* lines 255-273: the log is exhausted and the table is built
BuildTableStep ==
    /\ pc = "parse" /\ log_lines = <<>>
    /\ LET t == BuildTable(total_counters, url_counters, url_req_times) IN
         /\ table_data' = t.table_data
         /\ error' = t.error
         /\ pc' = IF t.error = "none" THEN After("parse") ELSE "crashed"
    /\ UNCHANGED <<run, log_dir, registry, user_config, last_log_file,
                   log_lines, report_size, total_counters, url_counters,
                   url_req_times, reports, written, input, output>>

\* lines 278-284: the template is read, or open() raises
ReadTemplateStep ==
    /\ pc = "template"
    /\ \E found \in BOOLEAN :
         IF found THEN pc' = After("template") /\ UNCHANGED error
         ELSE pc' = "crashed" /\ error' = "FileNotFoundError"
    /\ UNCHANGED <<run, log_dir, registry, user_config, last_log_file,
                   log_lines, report_size, total_counters, url_counters,
                   url_req_times, table_data, reports, written, input, output>>

\* lines 275-276 and 286-287: the report file is written, or open() raises
WriteReportStep ==
    /\ pc = "write"
    /\ \E writable \in BOOLEAN :
         IF writable
         THEN LET path == PathJoin(user_config.value[KEY_REPORT_DIR],
                                   ReportFileName(last_log_file.date)) IN
              /\ reports' = {f \in reports : f.path # path}
                              \cup {[path |-> path, table |-> table_data]}
              /\ written' = TRUE
              /\ pc' = After("write")
              /\ UNCHANGED error
         ELSE /\ pc' = "crashed" /\ error' = "OSError"
              /\ UNCHANGED <<reports, written>>
    /\ UNCHANGED <<run, log_dir, registry, user_config, last_log_file,
                   log_lines, report_size, total_counters, url_counters,
                   url_req_times, table_data, input, output>>

\* lines 289 and 205-216: shutil.copy is called when the resource file does
\* not exist, and raises; an existing resource is left alone
CopyResourcesStep ==
    /\ pc = "copy"
    /\ \E exists \in BOOLEAN :
         IF exists THEN pc' = After("copy") /\ UNCHANGED error
         ELSE pc' = "crashed" /\ error' = "FileNotFoundError"
    /\ UNCHANGED <<run, log_dir, registry, user_config, last_log_file,
                   log_lines, report_size, total_counters, url_counters,
                   url_req_times, table_data, reports, written, input, output>>

\* line 327
MarkStep ==
    /\ pc = "mark"
    /\ registry' = MarkAsProcessed(last_log_file.file, registry)
    /\ pc' = After("mark")
    /\ UNCHANGED <<run, log_dir, user_config, last_log_file, log_lines,
                   report_size, total_counters, url_counters, url_req_times,
                   table_data, reports, written, error, input, output>>

\* the scheduler starts main again
NextRun ==
    /\ pc \in {"done", "crashed", "exit"}
    /\ run < MaxRuns
    /\ run' = run + 1
    /\ pc' = "config"
    /\ localsReset
    /\ UNCHANGED <<log_dir, registry, reports, input, output>>

Init ==
    /\ pc = "config" /\ run = 1
    /\ log_dir \in Listings
    /\ registry = <<>>
    /\ user_config = None /\ last_log_file = None /\ log_lines = <<>>
    /\ report_size = 0
    /\ total_counters = EmptyAcc.total_counters
    /\ url_counters = <<>> /\ url_req_times = <<>> /\ table_data = <<>>
    /\ reports = {} /\ written = FALSE /\ error = "none"
    /\ input = <<>> /\ output = Pending

Next ==
    \/ ParseConfigStep
    \/ SelectFileStep
    \/ ParseLineStep
    \/ BuildTableStep
    \/ ReadTemplateStep
    \/ WriteReportStep
    \/ CopyResourcesStep
    \/ MarkStep
    \/ NextRun

Spec == Init /\ [][Next]_vars

-----------------------------------------------------------------------------
(* write_report alone, on a log of any lines, as the test calls it.        *)

ReportSizes == {1, 2}

InitReport ==
    /\ pc = "parse" /\ run = 1
    /\ log_dir = <<LogA>>
    /\ registry = <<>>
    /\ user_config = Some(config)
    /\ last_log_file = [file |-> PathJoin(config[KEY_LOG_DIR], LogA),
                        date |-> 20230301]
    /\ log_lines \in SeqsUpTo(LineSet, MaxLines)
    /\ report_size \in ReportSizes
    /\ total_counters = EmptyAcc.total_counters
    /\ url_counters = <<>> /\ url_req_times = <<>> /\ table_data = <<>>
    /\ reports = {} /\ written = FALSE /\ error = "none"
    /\ input = <<>> /\ output = Pending

NextReport ==
    \/ ParseLineStep
    \/ BuildTableStep
    \/ ReadTemplateStep
    \/ WriteReportStep
    \/ CopyResourcesStep

SpecReport == InitReport /\ [][NextReport]_vars

-----------------------------------------------------------------------------
(* The tokenizer alone.                                                    *)

\* the parts a line is drawn from: bare words, one-part spans, the opening
\* and closing parts of spans, and lone delimiters
PartSet ==
    { <<"w">>,
      <<Quote, "w", Quote>>, <<"[", "w", "]">>,
      <<Quote, "w">>, <<"w", Quote>>,
      <<"[", "w">>, <<"w", "]">>,
      <<Quote>>, <<"]">> }

InitTok ==
    /\ input \in {Join(ps) : ps \in SeqsUpTo(PartSet, MaxParts)}
    /\ output = Pending
    /\ pc = "fn" /\ run = 0 /\ log_dir = <<>> /\ registry = <<>>
    /\ user_config = None /\ last_log_file = None /\ log_lines = <<>>
    /\ report_size = 0
    /\ total_counters = [count |-> 0, time_sum |-> 0]
    /\ url_counters = <<>> /\ url_req_times = <<>> /\ table_data = <<>>
    /\ reports = {} /\ written = FALSE /\ error = "none"

ApplyTokenizer ==
    /\ output = Pending
    /\ output' = Done(Tokenizer(input))
    /\ UNCHANGED <<input, mainVars>>

NextTok == ApplyTokenizer

SpecTok == InitTok /\ [][NextTok]_vars

-----------------------------------------------------------------------------
(* mediana alone.                                                          *)

Values == 0..3

InitMed ==
    /\ input \in SeqsUpTo(Values, MaxValues)
    /\ output = Pending
    /\ pc = "fn" /\ run = 0 /\ log_dir = <<>> /\ registry = <<>>
    /\ user_config = None /\ last_log_file = None /\ log_lines = <<>>
    /\ report_size = 0
    /\ total_counters = [count |-> 0, time_sum |-> 0]
    /\ url_counters = <<>> /\ url_req_times = <<>> /\ table_data = <<>>
    /\ reports = {} /\ written = FALSE /\ error = "none"

ApplyMediana ==
    /\ output = Pending
    /\ output' = Done(Mediana(input))
    /\ UNCHANGED <<input, mainVars>>

NextMed == ApplyMediana

SpecMed == InitMed /\ [][NextMed]_vars

-----------------------------------------------------------------------------
(* parse_config alone.                                                     *)

CfgLineSet ==
    { <<"L", "O", "G", "_", "D", "I", "R", "=", "a", NL>>,
      <<"L", "O", "G", "_", "D", "I", "R", "=", "a", "=", "b", NL>>,
      <<"K", " ", "=", " ", "v", " ", "w", " ", NL>>,
      <<"R", "E", "P", "O", "R", "T", "_", "S", "I", "Z", "E", "=", "5", NL>>,
      <<"j", "u", "n", "k", NL>>,
      <<NL>>,
      <<"R", "E", "P", "O", "R", "T", "_", "D", "I", "R", "=", NL>>,
      <<"K", "=", "b", "=", "=">> }

InitCfg ==
    /\ input \in {Some(ls) : ls \in SeqsUpTo(CfgLineSet, MaxCfgLines)}
    /\ output = Pending
    /\ pc = "fn" /\ run = 0 /\ log_dir = <<>> /\ registry = <<>>
    /\ user_config = None /\ last_log_file = None /\ log_lines = <<>>
    /\ report_size = 0
    /\ total_counters = [count |-> 0, time_sum |-> 0]
    /\ url_counters = <<>> /\ url_req_times = <<>> /\ table_data = <<>>
    /\ reports = {} /\ written = FALSE /\ error = "none"

ApplyParseConfig ==
    /\ output = Pending
    /\ output' = Done(ParseConfig(input, config))
    /\ UNCHANGED <<input, mainVars>>

NextCfg == ApplyParseConfig

SpecCfg == InitCfg /\ [][NextCfg]_vars

-----------------------------------------------------------------------------
(* The claims.                                                             *)

Counters == <<total_counters, url_counters, url_req_times>>

\* a line is about to be read by the loop of write_report
ReadsLine == pc = "parse" /\ log_lines # <<>>

\* C1: a line that does not tokenize to exactly 13 tokens yields no record,
\* changes no per-URL or global aggregate and does not abort the run: the fold
\* goes on with the next line.
ClaimC1 ==
    [][(ReadsLine /\ Len(Tokenizer(Head(log_lines))) # NumFields)
          => (Counters' = Counters /\ error' = "none" /\ pc' = "parse")]_vars

\* C2: a record whose request field splits on spaces into fewer than 2 tokens
\* leaves every per-URL accumulator and the global count and time_sum
\* unchanged and raises no error; the fold goes on with the next record.
ClaimC2 ==
    [][(/\ ReadsLine
        /\ Len(Tokenizer(Head(log_lines))) = NumFields
        /\ Len(Split(Tokenizer(Head(log_lines))[5], " ")) < 2)
          => (Counters' = Counters /\ error' = "none" /\ pc' = "parse")]_vars

ReportPath ==
    PathJoin(user_config.value[KEY_REPORT_DIR], ReportFileName(last_log_file.date))

\* C3: the registry changes only by mark_as_processed appending the basename
\* of the selected file, and only after this run has written the report file
\* for it; a run that ends in an error leaves the registry as it was, and the
\* file it had selected is what get_last_log_file selects again.
TheoremC3 ==
    [][/\ registry' # registry
            => /\ written /\ error = "none" /\ last_log_file # None
               /\ [path |-> ReportPath, table |-> table_data] \in reports
               /\ registry' = registry \o <<NL>> \o Basename(last_log_file.file)
       /\ pc' \in {"crashed", "exit"}
            => /\ registry' = registry
               /\ last_log_file' # None
                    => GetLastLogFile(user_config'.value[KEY_LOG_DIR],
                                      log_dir', registry').value = last_log_file'
      ]_vars

\* a second run has marked a file although the first run marked none, and
\* the report of the file is on disk
WitnessC3 ==
    /\ pc = "done" /\ run = 2 /\ written
    /\ Len(ProcessedLogs(registry)) = 2
    /\ InList(Basename(last_log_file.file), ProcessedLogs(registry))

\* the naming convention: nginx-access-ui.log-YYYYMMDD, or that with .gz
ConventionMatch(name) ==
    /\ Len(name) \in {Len(Stem) + 8, Len(Stem) + 11}
    /\ SubSeq(name, 1, Len(Stem)) = Stem
    /\ \A i \in (Len(Stem) + 1)..(Len(Stem) + 8) : name[i] \in DigitChars
    /\ Len(name) = Len(Stem) + 11
         => SubSeq(name, Len(Stem) + 9, Len(name)) = <<".", "g", "z">>

EmbeddedDate(name) == DecimalValue(SubSeq(name, Len(Stem) + 1, Len(Stem) + 8))

Eligible ==
    {n \in Range(log_dir) :
        ConventionMatch(n) /\ ~InList(n, ProcessedLogs(registry))}

\* C4: get_last_log_file returns the file with the greatest embedded date
\* among the files that match the naming convention and are not listed in the
\* registry, and no file when there is none; so a file the registry lists is
\* not selected.
ClaimC4 ==
    /\ pc \in {"parse", "template", "write", "copy", "mark"}
         => /\ last_log_file # None
            /\ Basename(last_log_file.file) \in Eligible
            /\ \A n \in Eligible : EmbeddedDate(n) <= last_log_file.date
    /\ (pc = "exit" /\ error = "none") => Eligible = {}

RECURSIVE Sum(_)
Sum(xs) == IF xs = <<>> THEN 0 ELSE Head(xs) + Sum(Tail(xs))

SumCounts(d) == Sum([i \in 1..Len(d) |-> d[i].count])
SumTimeSums(d) == Sum([i \in 1..Len(d) |-> d[i].time_sum])
SumTimes(rt) == Sum([i \in 1..Len(rt) |-> Sum(rt[i].times)])

RECURSIVE FloatSumOf(_)
FloatSumOf(xs) ==
    IF xs = <<>> THEN 0
    ELSE FloatAdd(FloatSumOf(SubSeq(xs, 1, Len(xs) - 1)), xs[Len(xs)].time_sum)

\* C5 as stated: after every record folded the global count is the sum of the
\* per-URL counts and the global time_sum is the sum of the per-URL time_sums
\* (taken exactly, or added up as floats in table order).
ClaimC5 ==
    error = "none"
      => /\ total_counters.count = SumCounts(url_counters)
         /\ \/ total_counters.time_sum = SumTimeSums(url_counters)
            \/ total_counters.time_sum = FloatSumOf(url_counters)

\* the count of url in an insertion-ordered dict, 0 when it has no entry
CountAt(d, url) == IF UrlIndex(d, url) = 0 THEN 0 ELSE d[UrlIndex(d, url)].count

Urls(d) == {d[i].url : i \in 1..Len(d)}

\* C5 as amended: after every record folded the global count is the sum of
\* the per-URL counts, and the global time_sum is the sum of the per-URL
\* time_sums when no addition rounds (the request times add up to a number
\* the float holds exactly); a folded record either changes no count or adds
\* 1 to the global count and to the count of exactly one URL, and a record
\* with a method, a URL and a numeric time is counted.
TheoremC5 ==
    [][(ReadsLine /\ error' = "none")
          => /\ total_counters'.count = SumCounts(url_counters')
             /\ SumTimes(url_req_times') < Pow2(Prec)
                  => total_counters'.time_sum = SumTimeSums(url_counters')
             /\ \/ /\ total_counters'.count = total_counters.count
                   /\ url_counters' = url_counters
                \/ /\ total_counters'.count = total_counters.count + 1
                   /\ \E u \in Urls(url_counters') :
                        /\ CountAt(url_counters', u) = CountAt(url_counters, u) + 1
                        /\ \A v \in Urls(url_counters') \ {u} :
                             CountAt(url_counters', v) = CountAt(url_counters, v)
             /\ Head(log_lines) \in GoodLines
                  => total_counters'.count = total_counters.count + 1
      ]_vars

\* three records of two URLs are folded and their times add up exactly
WitnessC5 ==
    /\ error = "none" /\ pc = "parse"
    /\ Len(url_counters) = 2 /\ total_counters.count = 3
    /\ total_counters.time_sum > 0
    /\ SumTimes(url_req_times) < Pow2(Prec)

Delimiters == {Quote, "[", "]"}

NoDelimiter(p) == \A i \in 1..Len(p) : p[i] \notin Delimiters

Bare(p) == p # <<>> /\ NoDelimiter(p)

Closer(d) == IF d = "[" THEN "]" ELSE d

\* one part carrying both delimiters, such as "x" or [x]
OnePartSpan(p) ==
    /\ Len(p) >= 2
    /\ \E d \in {Quote, "["} : p[1] = d /\ p[Len(p)] = Closer(d)
    /\ NoDelimiter(SubSeq(p, 2, Len(p) - 1))

Opens(p, d) == p # <<>> /\ p[1] = d /\ NoDelimiter(Tail(p))

Closes(p, d) ==
    Len(p) >= 2 /\ p[Len(p)] = Closer(d) /\ Bare(SubSeq(p, 1, Len(p) - 1))

\* the part that closes the span ps[1] opens with d, 0 when there is none
SpanEnd(ps, d) ==
    IF \E k \in 2..Len(ps) :
          Closes(ps[k], d) /\ \A j \in 2..(k - 1) : Bare(ps[j])
    THEN CHOOSE k \in 2..Len(ps) :
          Closes(ps[k], d) /\ \A j \in 2..(k - 1) : Bare(ps[j])
    ELSE 0

\* the tokens of a line of bare words, one-part spans and multi-part spans;
\* ok is FALSE of any other line
RECURSIVE SpanTokens(_)
SpanTokens(ps) ==
    IF ps = <<>> THEN [ok |-> TRUE, tokens |-> <<>>]
    ELSE IF Bare(Head(ps)) \/ OnePartSpan(Head(ps))
    THEN [ok |-> SpanTokens(Tail(ps)).ok,
          tokens |-> <<Head(ps)>> \o SpanTokens(Tail(ps)).tokens]
    ELSE IF \E d \in {Quote, "["} : Opens(Head(ps), d) /\ SpanEnd(ps, d) > 0
    THEN LET k == SpanEnd(ps, Head(ps)[1])
             rest == SpanTokens(SubSeq(ps, k + 1, Len(ps)))
         IN  [ok |-> rest.ok,
              tokens |-> <<Join(SubSeq(ps, 1, k))>> \o rest.tokens]
    ELSE [ok |-> FALSE, tokens |-> <<>>]

\* C6: of a line made of bare words, one-part spans and multi-part spans the
\* tokenizer emits one token per bare word and one per span, in line order,
\* a span token being its parts joined by single spaces; a one-part span
\* opens no accumulator.
ClaimC6 ==
    (output.done /\ SpanTokens(Parts(input)).ok)
      => output.value = SpanTokens(Parts(input)).tokens

\* C7: mediana of a non-empty list is the element at 0-based index
\* floor(n/2) of the list sorted ascending: a member of the list with at most
\* floor(n/2) elements below it and more than floor(n/2) elements not above
\* it; mediana of the empty list is 0.
TheoremC7 ==
    output.done
      => IF input = <<>> THEN output.value = 0
         ELSE /\ \E i \in 1..Len(input) : input[i] = output.value
              /\ Cardinality({i \in 1..Len(input) : input[i] < output.value})
                   <= Len(input) \div 2
              /\ Cardinality({i \in 1..Len(input) : input[i] <= output.value})
                   > Len(input) \div 2

\* the median of four distinct unsorted values is the third smallest
WitnessC7 ==
    output.done /\ input = <<3, 0, 2, 1>> /\ output.value = 2

\* C8: the rows written into the report are ordered by time_sum descending
\* and are at most REPORT_SIZE, namely those of the URLs with the largest
\* time_sum.
ClaimC8 ==
    written
      => \A f \in reports :
           /\ Len(f.table) <= report_size
           /\ \A i, j \in 1..Len(f.table) :
                i < j => f.table[i].time_sum >= f.table[j].time_sum
           /\ \A i \in 1..Len(f.table), j \in 1..Len(url_counters) :
                url_counters[j].url \notin {f.table[k].url : k \in 1..Len(f.table)}
                  => url_counters[j].time_sum <= f.table[i].time_sum

HasSeparator(line) == Find(line, "=") >= 0

\* the key and the value of a config line: the text before its first "="
\* and the whole text after it, trimmed
KeyOf(line) == Strip(SubSeq(line, 1, Find(line, "=")))
ValueOf(line) == Strip(SubSeq(line, Find(line, "=") + 2, Len(line)))

\* C9: parse_config returns None when a line has no "="; otherwise each key
\* of the file maps to the whole text after the first "=" of its (last) line,
\* trimmed, and each default key absent from the file to its default.
ClaimC9 ==
    output.done
      => LET lines == input.value IN
         IF \E i \in 1..Len(lines) : ~HasSeparator(lines[i])
         THEN output.value = None
         ELSE /\ output.value # None
              /\ \A i \in 1..Len(lines) :
                   (\A j \in (i + 1)..Len(lines) : KeyOf(lines[j]) # KeyOf(lines[i]))
                     => /\ KeyOf(lines[i]) \in DOMAIN output.value.value
                        /\ output.value.value[KeyOf(lines[i])] = ValueOf(lines[i])
              /\ \A k \in Range(DefaultKeys) :
                   (\A i \in 1..Len(lines) : KeyOf(lines[i]) # k)
                     => /\ k \in DOMAIN output.value.value
                        /\ output.value.value[k] = config[k]

\* C10: building the table never divides by zero, and the table of a log
\* with no accepted record is empty.
ClaimC10 ==
    /\ error # "ZeroDivisionError"
    /\ (pc \in {"template", "write", "copy", "mark"} /\ total_counters.count = 0)
         => table_data = <<>>

====
